---- MODULE Spec2Model ----
(***************************************************************************)
(* Model of the connection manager, message classifier, position store and *)
(* view of src/app/page.tsx (the Home component and its useEffect).        *)
(*                                                                         *)
(* The browser is the environment: it creates sockets, delivers open,      *)
(* message, error and close events, expires timers and advances the        *)
(* wall clock.  Every handler of the effect is one operator; the action    *)
(* that delivers an event calls the handler and records the event.         *)
(***************************************************************************)
EXTENDS Integers, Sequences, FiniteSets, TLC

\* ---------------------------------------------------------------- bounds
MaxSockets  == 2      \* sockets the constructor may hand out in one run
MaxTimers   == 2      \* timer handles setTimeout may hand out in one run
MaxMessages == 2      \* message events handled while mounted in one run
MaxClock    == 1      \* last value of the wall clock
MaxAltLen   == 3      \* longest altitude text drawn from the alphabet

\* ------------------------------------------------------ program constants
RECONNECT_DELAY == 3000

\* ------------------------------------------------------------- JS values
\* A JavaScript value: t is its kind, m / e the decimal number m * 10^(-e),
\* s the text as a sequence of chunks (altitude texts have one character per
\* chunk, every other text is one chunk).
JsVal(t, m, e, s) == [t |-> t, m |-> m, e |-> e, s |-> s]
Undefined == JsVal("undefined", 0, 0, <<>>)
Null      == JsVal("null", 0, 0, <<>>)
NaN       == JsVal("nan", 0, 0, <<>>)
Absent    == JsVal("absent", 0, 0, <<>>)
Num(m, e) == JsVal("num", m, e, <<>>)
Str(s)    == JsVal("str", 0, 0, s)
Text(w)   == Str(<<w>>)

\* typeof v === 'string'
IsString(v) == v.t = "str"
\* v has Number.prototype.toFixed (NaN is a number)
IsNumber(v) == v.t \in {"num", "nan"}
\* obj.field: a field that is not there reads as undefined
Get(v) == IF v.t = "absent" THEN Undefined ELSE v
\* 'field' in obj
Has(v) == v.t # "absent"

\* ------------------------------------------------- String.prototype, parseFloat
Digits == <<"0", "1", "2", "3", "4", "5", "6", "7", "8", "9">>
IsDigit(c) == \E i \in 1..10 : Digits[i] = c
DigitVal(c) == (CHOOSE i \in 1..10 : Digits[i] = c) - 1
IsSpace(c) == c = " "

Drop(s, n) == SubSeq(s, n + 1, Len(s))
Take(s, n) == SubSeq(s, 1, n)

\* index of the first occurrence of pat in s, 0 when there is none
IndexOf(s, pat) ==
    LET hits == {i \in 1..(Len(s) - Len(pat) + 1) : SubSeq(s, i, i + Len(pat) - 1) = pat}
    IN IF hits = {} THEN 0 ELSE CHOOSE i \in hits : \A j \in hits : i <= j

\* s.replace(pat, ''): removes the FIRST occurrence of the pattern text
ReplaceFirst(s, pat) ==
    LET i == IndexOf(s, pat)
    IN IF i = 0 THEN s ELSE Take(s, i - 1) \o Drop(s, i + Len(pat) - 1)

RECURSIVE TrimStart(_)
TrimStart(s) == IF s # <<>> /\ IsSpace(Head(s)) THEN TrimStart(Tail(s)) ELSE s

RECURSIVE TrimEnd(_)
TrimEnd(s) == IF s # <<>> /\ IsSpace(s[Len(s)]) THEN TrimEnd(Take(s, Len(s) - 1)) ELSE s

\* s.trim()
Trim(s) == TrimEnd(TrimStart(s))

\* length of the longest prefix of s made of digits
RECURSIVE DigitRun(_)
DigitRun(s) == IF s # <<>> /\ IsDigit(Head(s)) THEN 1 + DigitRun(Tail(s)) ELSE 0

RECURSIVE DigitsToInt(_)
DigitsToInt(s) ==
    IF s = <<>> THEN 0 ELSE 10 * DigitsToInt(Take(s, Len(s) - 1)) + DigitVal(s[Len(s)])

\* m * 10^(-e) without trailing fractional zeros
RECURSIVE Normalize(_, _)
Normalize(m, e) == IF e > 0 /\ m % 10 = 0 THEN Normalize(m \div 10, e - 1) ELSE Num(m, e)

\* parseFloat(s): skips leading white space, reads the longest prefix that is
\* a decimal literal (sign, digits, '.', digits), NaN when there is none
ParseFloat(s) ==
    LET t    == TrimStart(s)
        neg  == t # <<>> /\ Head(t) = "-"
        u    == IF t # <<>> /\ Head(t) \in {"-", "+"} THEN Tail(t) ELSE t
        ni   == DigitRun(u)
        rest == Drop(u, ni)
        dot  == rest # <<>> /\ Head(rest) = "."
        nf   == IF dot THEN DigitRun(Tail(rest)) ELSE 0
        int  == Take(u, ni)
        frac == IF dot THEN Take(Tail(rest), nf) ELSE <<>>
        v    == Normalize(DigitsToInt(int \o frac), nf)
    IN IF ni = 0 /\ nf = 0 THEN NaN
       ELSE IF neg THEN Num(0 - v.m, v.e) ELSE v

\* an altitude text, one character per chunk
Chars(seq) == Str(seq)

\* --------------------------------------------------------------- payloads
\* event.data after the transport: json says what JSON.parse makes of the
\* text ("bad": it throws, "scalar": a value that is not an object,
\* "object": an object with the fields below, Absent when not there).
Payload(json, type, message, name, norad, lat, lon, alt) ==
    [json |-> json, type |-> type, message |-> message, name |-> name,
     norad |-> norad, lat |-> lat, lon |-> lon, alt |-> alt]

Malformed  == Payload("bad", Absent, Absent, Absent, Absent, Absent, Absent, Absent)
Scalar     == Payload("scalar", Absent, Absent, Absent, Absent, Absent, Absent, Absent)
EmptyObj   == Payload("object", Absent, Absent, Absent, Absent, Absent, Absent, Absent)
Welcome    == Payload("object", Text("connection"), Text("Welcome"), Absent,
                      Absent, Absent, Absent, Absent)
Position(name, norad, lat, lon, alt) ==
    Payload("object", Absent, Absent, Text(name), Num(norad, 0), lat, lon, alt)
\* a position that also carries type: "connection"
TypedPosition ==
    Payload("object", Text("connection"), Text("Welcome"), Text("ISS"),
            Num(1, 0), Num(1, 0), Num(2, 0), Num(5505, 1))

Payloads ==
    { Malformed, Scalar, EmptyObj, Welcome, TypedPosition,
      Position("ISS", 1, Num(1, 0), Num(2, 0), Num(5505, 1)),
      Position("ISS", 1, Num(2, 0), Num(2, 0), Chars(<<"5", "5", "0", ".", "5", "k", "m">>)),
      Position("HST", 2, Num(1, 0), Num(2, 0), Num(400, 0)),
      Position("ISS", 1, Absent, Num(2, 0), Num(400, 0)),
      Position("ISS", 1, Num(1, 0), Num(2, 0), Chars(<<"k", "m">>)) }

\* a position message of the wire format of the streaming endpoint
ValidPosition(p) ==
    /\ p.json = "object"
    /\ p.type = Absent
    /\ p.name.t = "str"
    /\ p.norad.t = "num" /\ p.norad.e = 0
    /\ p.lat.t = "num" /\ p.lon.t = "num"
    /\ \/ p.alt.t = "num"
       \/ p.alt.t = "str" /\ ParseFloat(Trim(ReplaceFirst(p.alt.s, <<"k", "m">>))).t = "num"

NoData == Payload("none", Absent, Absent, Absent, Absent, Absent, Absent, Absent)

\* ------------------------------------------------------------------ state
VARIABLES
    satellites,        \* useState: Map norad -> SatelliteData
    connected,         \* useState: boolean
    connectionStatus,  \* useState: the status text
    messageCount,      \* useState: number
    lastMessageTime,   \* useState: Date | null (-1 is null)
    ws,                \* closure: the socket last constructed, 0 is null
    reconnectTimeout,  \* closure: a timer handle, 0 is null
    isMounted,         \* closure: the liveness flag
    effectRan,         \* the effect of useEffect(..., []) has run
    sockets,           \* the WebSocket objects constructed so far
    timers,            \* the timers setTimeout has created so far
    now,               \* the wall clock read by new Date()
    event,             \* the event the browser dispatched last
    delivered          \* per norad, the last two event.data handled while mounted

uiState == <<satellites, connected, connectionStatus, messageCount, lastMessageTime>>
closure == <<ws, reconnectTimeout>>
vars == <<satellites, connected, connectionStatus, messageCount, lastMessageTime,
          ws, reconnectTimeout, isMounted, effectRan, sockets, timers, now, event,
          delivered>>

\* new WebSocket(url): readyState CONNECTING, nothing dispatched yet
NewSocket == [readyState |-> "CONNECTING", wasOpen |-> FALSE, errorFired |-> FALSE,
              closeFired |-> FALSE, closeRequested |-> FALSE]
\* setTimeout(callback, delay): active until it runs or is cleared; expired
\* says that its delay has passed and its callback is queued
NewTimer(delay) == [st |-> "active", delay |-> delay, expired |-> FALSE]

Event(type, target, data) == [type |-> type, target |-> target, data |-> data]

\* clearTimeout(id): cancels an active timer, expired or not; no effect on a
\* timer that has run or was cleared
ClearTimeout(tm, id) ==
    IF id \in 1..Len(tm) /\ tm[id].st = "active"
    THEN [tm EXCEPT ![id].st = "cleared"]
    ELSE tm

\* socket.close(): starts closing a CONNECTING or OPEN socket
CloseSocket(sk, id) ==
    IF id \in 1..Len(sk) /\ sk[id].readyState \in {"CONNECTING", "OPEN"}
    THEN [sk EXCEPT ![id].readyState = "CLOSING", ![id].closeRequested = TRUE]
    ELSE sk

Live(sock) == sock.readyState \in {"CONNECTING", "OPEN"}
Pending(timer) == timer.st = "active"
PendingTimers == {t \in 1..Len(timers) : Pending(timers[t])}
LiveSockets == {s \in 1..Len(sockets) : Live(sockets[s])}

TypeOK ==
    /\ connected \in BOOLEAN /\ isMounted \in BOOLEAN /\ effectRan \in BOOLEAN
    /\ messageCount \in 0..MaxMessages
    /\ lastMessageTime \in -1..MaxClock
    /\ now \in 0..MaxClock
    /\ ws \in 0..Len(sockets) /\ reconnectTimeout \in 0..Len(timers)
    /\ Len(sockets) <= MaxSockets /\ Len(timers) <= MaxTimers

Init ==
    /\ satellites = <<>>
    /\ connected = FALSE
    /\ connectionStatus = Text("Disconnected")
    /\ messageCount = 0
    /\ lastMessageTime = -1
    /\ ws = 0
    /\ reconnectTimeout = 0
    /\ isMounted = FALSE
    /\ effectRan = FALSE
    /\ sockets = <<>>
    /\ timers = <<>>
    /\ now = 0
    /\ event = Event("none", 0, NoData)
    /\ delivered = <<>>

\* --------------------------------------------------------------- connect()
\* mutant: the retry is scheduled on every connect(), not only in the catch
ConnectCreated_AlsoSchedules(tm) ==
    /\ Len(sockets) < MaxSockets /\ Len(tm) < MaxTimers
    /\ sockets' = Append(sockets, NewSocket)
    /\ ws' = Len(sockets) + 1
    /\ timers' = Append(tm, NewTimer(RECONNECT_DELAY))
    /\ reconnectTimeout' = Len(tm) + 1
    /\ UNCHANGED uiState

\* tm: the timers as they are when connect() is entered
ConnectCreated(tm) ==
    /\ Len(sockets) < MaxSockets
    /\ sockets' = Append(sockets, NewSocket)
    /\ ws' = Len(sockets) + 1
    /\ timers' = tm
    /\ UNCHANGED <<uiState, reconnectTimeout>>

\* the constructor throws: the catch block (mounted: the caller's isMounted)
ConnectThrew(tm, mounted) ==
    IF mounted
    THEN /\ Len(tm) < MaxTimers
         /\ connectionStatus' = Text("Failed to connect - retrying...")
         /\ timers' = Append(tm, NewTimer(RECONNECT_DELAY))
         /\ reconnectTimeout' = Len(tm) + 1
         /\ UNCHANGED <<satellites, connected, messageCount, lastMessageTime, ws, sockets>>
    ELSE /\ timers' = tm
         /\ UNCHANGED <<uiState, closure, sockets>>

Connect(tm, mounted) == ConnectCreated(tm) \/ ConnectThrew(tm, mounted)

\* ---------------------------------------------------------------- ws.onopen
\* mutant: a new connection starts the counter again
OnOpen_ResetsCount ==
    IF ~isMounted
    THEN UNCHANGED <<uiState, closure, timers>>
    ELSE /\ connected' = TRUE
         /\ connectionStatus' = Text("Connected")
         /\ messageCount' = 0
         /\ IF reconnectTimeout # 0
            THEN /\ timers' = ClearTimeout(timers, reconnectTimeout)
                 /\ reconnectTimeout' = 0
            ELSE UNCHANGED <<timers, reconnectTimeout>>
         /\ UNCHANGED <<satellites, lastMessageTime, ws>>

\* mutant: the handle of the reconnect timer is kept on open
OnOpen_NoHandleReset ==
    IF ~isMounted
    THEN UNCHANGED <<uiState, closure, timers>>
    ELSE /\ connected' = TRUE
         /\ connectionStatus' = Text("Connected")
         /\ UNCHANGED <<timers, reconnectTimeout>>
         /\ UNCHANGED <<satellites, messageCount, lastMessageTime, ws>>

OnOpen ==
    IF ~isMounted
    THEN UNCHANGED <<uiState, closure, timers>>
    ELSE /\ connected' = TRUE
         /\ connectionStatus' = Text("Connected")
         /\ IF reconnectTimeout # 0
            THEN /\ timers' = ClearTimeout(timers, reconnectTimeout)
                 /\ reconnectTimeout' = 0
            ELSE UNCHANGED <<timers, reconnectTimeout>>
         /\ UNCHANGED <<satellites, messageCount, lastMessageTime, ws>>

\* ------------------------------------------------------------- ws.onmessage
\* what the try block makes of event.data: JSON.parse throws on text that is
\* not JSON, and the 'in' operator of the type guards throws on a value that
\* is not an object
IsConnectionMessage(data) == Has(data.type) /\ Get(data.type) = Text("connection")
IsSatellitePosition(data) == Has(data.norad)

\* mutant: the position guard is tried before the connection guard
Classify_PositionFirst(data) ==
    IF data.json # "object" THEN "throw"
    ELSE IF IsSatellitePosition(data) THEN "position"
    ELSE IF IsConnectionMessage(data) THEN "connection"
    ELSE "unknown"

Classify(data) ==
    IF data.json # "object" THEN "throw"
    ELSE IF IsConnectionMessage(data) THEN "connection"
    ELSE IF IsSatellitePosition(data) THEN "position"
    ELSE "unknown"

\* altValue
AltValue(alt) ==
    IF IsString(alt)
    THEN ParseFloat(Trim(ReplaceFirst(alt.s, <<"k", "m">>)))
    ELSE alt

\* satelliteData
SatelliteDataOf(data, time) ==
    [name |-> Get(data.name), norad |-> Get(data.norad), lat |-> Get(data.lat),
     lon |-> Get(data.lon), alt |-> AltValue(Get(data.alt)), timestamp |-> time]

\* mutant: a key that is already there keeps its record
MapSet_KeepFirst(map, key, value) ==
    [k \in (DOMAIN map) \cup {key} |-> IF k \in DOMAIN map THEN map[k] ELSE value]

\* new Map(prev).set(key, value)
MapSet(map, key, value) ==
    [k \in (DOMAIN map) \cup {key} |-> IF k = key THEN value ELSE map[k]]

\* mutant: the counter and the time are updated after JSON.parse, not before
OnMessageBody_CountAfterParse(data) ==
    /\ messageCount' = IF data.json = "bad" THEN messageCount ELSE messageCount + 1
    /\ lastMessageTime' = IF data.json = "bad" THEN lastMessageTime ELSE now
    /\ CASE Classify(data) = "connection" ->
              /\ connectionStatus' = Get(data.message)
              /\ UNCHANGED satellites
         [] Classify(data) = "position" ->
              /\ satellites' = MapSet(satellites, Get(data.norad), SatelliteDataOf(data, now))
              /\ UNCHANGED connectionStatus
         [] OTHER ->
              UNCHANGED <<satellites, connectionStatus>>
    /\ UNCHANGED <<connected, closure, timers>>

\* mutant: the status text is taken from data.status, always 'connected'
OnMessageBody_StatusField(data) ==
    /\ messageCount' = messageCount + 1
    /\ lastMessageTime' = now
    /\ CASE Classify(data) = "connection" ->
              /\ connectionStatus' = Text("connected")
              /\ UNCHANGED satellites
         [] Classify(data) = "position" ->
              /\ satellites' = MapSet(satellites, Get(data.norad), SatelliteDataOf(data, now))
              /\ UNCHANGED connectionStatus
         [] OTHER ->
              UNCHANGED <<satellites, connectionStatus>>
    /\ UNCHANGED <<connected, closure, timers>>

\* mutant: a position whose altitude parses to NaN is dropped
OnMessageBody_DropsNaN(data) ==
    /\ messageCount' = messageCount + 1
    /\ lastMessageTime' = now
    /\ CASE Classify(data) = "connection" ->
              /\ connectionStatus' = Get(data.message)
              /\ UNCHANGED satellites
         [] Classify(data) = "position" /\ AltValue(Get(data.alt)) # NaN ->
              /\ satellites' = MapSet(satellites, Get(data.norad), SatelliteDataOf(data, now))
              /\ UNCHANGED connectionStatus
         [] OTHER ->
              UNCHANGED <<satellites, connectionStatus>>
    /\ UNCHANGED <<connected, closure, timers>>

OnMessageBody(data) ==
    /\ messageCount' = messageCount + 1
    /\ lastMessageTime' = now
    /\ CASE Classify(data) = "connection" ->
              /\ connectionStatus' = Get(data.message)
              /\ UNCHANGED satellites
         [] Classify(data) = "position" ->
              /\ satellites' = MapSet(satellites, Get(data.norad), SatelliteDataOf(data, now))
              /\ UNCHANGED connectionStatus
         [] OTHER ->
              UNCHANGED <<satellites, connectionStatus>>
    /\ UNCHANGED <<connected, closure, timers>>

\* mutant: the handler without its liveness check
OnMessage_NoMountCheck(data) == OnMessageBody(data)

OnMessage(data) ==
    IF ~isMounted
    THEN UNCHANGED <<uiState, closure, timers>>
    ELSE OnMessageBody(data)

\* --------------------------------------------------------------- ws.onerror
\* mutant: the error handler sets a retry timer of its own
OnError_SchedulesUntracked ==
    IF ~isMounted
    THEN UNCHANGED <<uiState, closure, timers>>
    ELSE /\ Len(timers) < MaxTimers
         /\ connected' = FALSE
         /\ connectionStatus' = Text("Connection error - retrying...")
         /\ timers' = Append(timers, NewTimer(RECONNECT_DELAY))
         /\ UNCHANGED <<satellites, messageCount, lastMessageTime, closure>>

\* mutant: the error handler leaves the connected flag
OnError_KeepsConnected ==
    IF ~isMounted
    THEN UNCHANGED <<uiState, closure, timers>>
    ELSE /\ connectionStatus' = Text("Connection error - retrying...")
         /\ UNCHANGED <<satellites, connected, messageCount, lastMessageTime, closure, timers>>

OnError ==
    IF ~isMounted
    THEN UNCHANGED <<uiState, closure, timers>>
    ELSE /\ connected' = FALSE
         /\ connectionStatus' = Text("Connection error - retrying...")
         /\ UNCHANGED <<satellites, messageCount, lastMessageTime, closure, timers>>

\* --------------------------------------------------------------- ws.onclose
\* mutant: a disconnect empties the store
OnClose_ClearsStore ==
    IF ~isMounted
    THEN UNCHANGED <<uiState, closure, timers>>
    ELSE /\ connected' = FALSE
         /\ connectionStatus' = Text("Disconnected - reconnecting...")
         /\ satellites' = <<>>
         /\ IF isMounted /\ reconnectTimeout = 0
            THEN /\ Len(timers) < MaxTimers
                 /\ timers' = Append(timers, NewTimer(RECONNECT_DELAY))
                 /\ reconnectTimeout' = Len(timers) + 1
            ELSE UNCHANGED <<timers, reconnectTimeout>>
         /\ UNCHANGED <<messageCount, lastMessageTime, ws>>

\* mutant: the close handler leaves the connected flag
OnClose_KeepsConnected ==
    IF ~isMounted
    THEN UNCHANGED <<uiState, closure, timers>>
    ELSE /\ connectionStatus' = Text("Disconnected - reconnecting...")
         /\ IF isMounted /\ reconnectTimeout = 0
            THEN /\ Len(timers) < MaxTimers
                 /\ timers' = Append(timers, NewTimer(RECONNECT_DELAY))
                 /\ reconnectTimeout' = Len(timers) + 1
            ELSE UNCHANGED <<timers, reconnectTimeout>>
         /\ UNCHANGED <<satellites, connected, messageCount, lastMessageTime, ws>>

OnClose ==
    IF ~isMounted
    THEN UNCHANGED <<uiState, closure, timers>>
    ELSE /\ connected' = FALSE
         /\ connectionStatus' = Text("Disconnected - reconnecting...")
         /\ IF isMounted /\ reconnectTimeout = 0
            THEN /\ Len(timers) < MaxTimers
                 /\ timers' = Append(timers, NewTimer(RECONNECT_DELAY))
                 /\ reconnectTimeout' = Len(timers) + 1
            ELSE UNCHANGED <<timers, reconnectTimeout>>
         /\ UNCHANGED <<satellites, messageCount, lastMessageTime, ws>>

\* ------------------------------------------- the callback of both setTimeouts
TimerCallback(t) ==
    LET tm == [timers EXCEPT ![t].st = "fired"]
    IN IF isMounted
       THEN Connect(tm, isMounted)
       ELSE /\ timers' = tm
            /\ UNCHANGED <<uiState, closure, sockets>>

\* ------------------------------------------------------- the effect's cleanup
\* mutant: the cleanup forgets the reconnect timer
Cleanup_NoClearTimeout ==
    /\ isMounted' = FALSE
    /\ timers' = timers
    /\ sockets' = IF ws # 0 THEN CloseSocket(sockets, ws) ELSE sockets
    /\ UNCHANGED <<uiState, closure>>

Cleanup ==
    /\ isMounted' = FALSE
    /\ timers' = IF reconnectTimeout # 0 THEN ClearTimeout(timers, reconnectTimeout) ELSE timers
    /\ sockets' = IF ws # 0 THEN CloseSocket(sockets, ws) ELSE sockets
    /\ UNCHANGED <<uiState, closure>>

\* ------------------------------------------------------------------ the view
\* Number.prototype.toFixed is called on lat, lon and alt of every record
RowThrows(sat) == ~IsNumber(sat.lat) \/ ~IsNumber(sat.lon) \/ ~IsNumber(sat.alt)
RenderThrows == \E k \in DOMAIN satellites : RowThrows(satellites[k])
ShowsPlaceholder == DOMAIN satellites = {}
\* mutant: the hint does not look at the connected flag
ShowsHint_IgnoresConnected == DOMAIN satellites = {} /\ messageCount > 0
ShowsHint == ShowsPlaceholder /\ connected /\ messageCount > 0
ShowsCounters == connected

\* ------------------------------------------------------------------ actions
\* the history of one norad: its last two payloads, the newest last
Record(hist, key, data) ==
    LET old == IF key \in DOMAIN hist THEN hist[key] ELSE <<>>
        new == IF Len(old) < 2 THEN Append(old, data) ELSE <<old[2], data>>
    IN [k \in (DOMAIN hist) \cup {key} |-> IF k = key THEN new ELSE hist[k]]

\* React runs the effect once after the first render
Mount ==
    /\ ~effectRan
    /\ effectRan' = TRUE
    /\ isMounted' = TRUE
    /\ Connect(timers, TRUE)
    /\ event' = Event("mount", 0, NoData)
    /\ UNCHANGED now
    /\ UNCHANGED delivered

Unmount ==
    /\ effectRan /\ isMounted
    /\ Cleanup
    /\ event' = Event("cleanup", 0, NoData)
    /\ UNCHANGED <<effectRan, now>>
    /\ UNCHANGED delivered

\* the connection is established; the task may already be queued when
\* close() is called on the connecting socket
WsOpen(s) ==
    /\ ~sockets[s].wasOpen /\ ~sockets[s].errorFired /\ ~sockets[s].closeFired
    /\ sockets[s].readyState \in {"CONNECTING", "CLOSING"}
    /\ sockets' = [sockets EXCEPT ![s].wasOpen = TRUE,
                                  ![s].readyState = IF @ = "CONNECTING" THEN "OPEN" ELSE @]
    /\ OnOpen
    /\ event' = Event("open", s, NoData)
    /\ UNCHANGED <<isMounted, effectRan, now>>
    /\ UNCHANGED delivered

WsMessage(s, data) ==
    /\ sockets[s].wasOpen /\ ~sockets[s].closeFired
    /\ sockets[s].readyState \in {"OPEN", "CLOSING"}
    /\ isMounted => messageCount < MaxMessages
    /\ OnMessage(data)
    /\ event' = Event("message", s, data)
    /\ delivered' = IF isMounted /\ data.json = "object" /\ Has(data.norad)
                    THEN Record(delivered, Get(data.norad), data)
                    ELSE delivered
    /\ UNCHANGED <<sockets, isMounted, effectRan, now>>

\* the connection failed: the error event, the close event follows
WsError(s) ==
    /\ ~sockets[s].errorFired /\ ~sockets[s].closeFired
    /\ sockets[s].readyState \in {"CONNECTING", "OPEN", "CLOSING"}
    /\ sockets' = [sockets EXCEPT ![s].errorFired = TRUE, ![s].readyState = "CLOSED"]
    /\ OnError
    /\ event' = Event("error", s, NoData)
    /\ UNCHANGED <<isMounted, effectRan, now>>
    /\ UNCHANGED delivered

WsClose(s) ==
    /\ ~sockets[s].closeFired
    /\ sockets[s].errorFired \/ sockets[s].readyState \in {"OPEN", "CLOSING"}
    /\ sockets' = [sockets EXCEPT ![s].closeFired = TRUE, ![s].readyState = "CLOSED"]
    /\ OnClose
    /\ event' = Event("close", s, NoData)
    /\ UNCHANGED <<isMounted, effectRan, now>>
    /\ UNCHANGED delivered

\* the delay of a timer has passed: its callback is queued
TimerExpire(t) ==
    /\ timers[t].st = "active" /\ ~timers[t].expired
    /\ timers' = [timers EXCEPT ![t].expired = TRUE]
    /\ event' = Event("expire", t, NoData)
    /\ UNCHANGED <<uiState, closure, isMounted, effectRan, sockets, now>>
    /\ UNCHANGED delivered

TimerRun(t) ==
    /\ timers[t].st = "active" /\ timers[t].expired
    /\ TimerCallback(t)
    /\ event' = Event("timeout", t, NoData)
    /\ UNCHANGED <<isMounted, effectRan, now>>
    /\ UNCHANGED delivered

Tick ==
    /\ now < MaxClock
    /\ now' = now + 1
    /\ event' = Event("tick", 0, NoData)
    /\ UNCHANGED <<uiState, closure, isMounted, effectRan, sockets, timers>>
    /\ UNCHANGED delivered

Next ==
    \/ Mount
    \/ Unmount
    \/ \E s \in 1..Len(sockets) : WsOpen(s)
    \/ \E s \in 1..Len(sockets) : \E data \in Payloads : WsMessage(s, data)
    \/ \E s \in 1..Len(sockets) : WsError(s)
    \/ \E s \in 1..Len(sockets) : WsClose(s)
    \/ \E t \in 1..Len(timers) : TimerExpire(t)
    \/ \E t \in 1..Len(timers) : TimerRun(t)
    \/ Tick

Spec == Init /\ [][Next]_vars

\* ------------------------------------------- altitude texts on an open socket
\* the altitudes a position message may carry: a number, the texts of the
\* documentation, and every text over a small alphabet
AltChars == {"5", ".", "k", "m", " "}
AltTexts == UNION {[1..n -> AltChars] : n \in 0..MaxAltLen}
AltInputs ==
    {Chars(t) : t \in AltTexts}
      \cup { Num(5505, 1),
             Chars(<<"5", "5", "0", ".", "5", "k", "m">>),
             Chars(<<" ", "4", "0", "0", " ", "k", "m", " ">>) }

\* the state after the effect has run and its socket has opened
InitAlt ==
    /\ satellites = <<>>
    /\ connected = TRUE
    /\ connectionStatus = Text("Connected")
    /\ messageCount = 0
    /\ lastMessageTime = -1
    /\ ws = 1
    /\ reconnectTimeout = 0
    /\ isMounted = TRUE
    /\ effectRan = TRUE
    /\ sockets = <<[NewSocket EXCEPT !.readyState = "OPEN", !.wasOpen = TRUE]>>
    /\ timers = <<>>
    /\ now = 0
    /\ event = Event("open", 1, NoData)
    /\ delivered = <<>>

\* a position message with any of the altitudes arrives
NextAlt ==
    \E alt \in AltInputs : WsMessage(1, Position("ISS", 1, Num(1, 0), Num(2, 0), alt))

SpecAlt == InitAlt /\ [][NextAlt]_vars

\* ============================================================ properties
Torn == effectRan /\ ~isMounted

\* the close event of every socket constructed so far has been handled
AllClosed == \A s \in 1..Len(sockets) : sockets[s].closeFired

FailureTexts == { Text("Failed to connect - retrying..."),
                  Text("Connection error - retrying..."),
                  Text("Disconnected - reconnecting...") }

\* C1: while the component is mounted there is always a way on: a socket
\* whose close event is still to come, or a pending reconnect timer. A
\* mounted state with every socket closed and no timer pending never retries.
C1_AlwaysRetrying ==
    isMounted => ~(AllClosed /\ PendingTimers = {})

\* C2: after a close event handled while mounted, connected is false, the
\* status is the disconnected text and exactly one reconnect timer is pending.
C2_CloseSchedulesOne ==
    (isMounted /\ event.type = "close") =>
        /\ connected = FALSE
        /\ connectionStatus = Text("Disconnected - reconnecting...")
        /\ Cardinality(PendingTimers) = 1

\* C3: at most one socket is connecting or open in every state, and every
\* step that runs connect() (the effect, or a reconnect timer firing while
\* mounted) starts from a state without a connecting or open socket.
C3_OneActiveConnection ==
    /\ [](Cardinality(LiveSockets) <= 1)
    /\ [][(event'.type \in {"mount", "timeout"} /\ isMounted') => LiveSockets = {}]_vars

C3_Witness ==
    /\ isMounted /\ event.type = "timeout"
    /\ Len(sockets) >= 2 /\ ws = Len(sockets) /\ Live(sockets[ws])
    /\ sockets[1].closeFired

\* C4: once the cleanup has run, no step changes the store, the connected
\* flag, the status text, the message counter or the last-message time.
C4_NoMutationAfterTeardown ==
    [][Torn => UNCHANGED uiState]_vars

C4_Witness ==
    /\ Torn /\ event.type = "message" /\ Classify(event.data) = "position"
    /\ messageCount = 0

\* the altitude a wire-format position stands for: a number as it is, a text
\* without surrounding white space and without its trailing unit "km"
StripUnit(s) ==
    IF Len(s) >= 2 /\ SubSeq(s, Len(s) - 1, Len(s)) = <<"k", "m">>
    THEN Take(s, Len(s) - 2) ELSE s
ExpectedAlt(alt) == IF alt.t = "str" THEN ParseFloat(Trim(StripUnit(Trim(alt.s)))) ELSE alt
ExpectedFields(p) ==
    [name |-> p.name, norad |-> p.norad, lat |-> p.lat, lon |-> p.lon, alt |-> ExpectedAlt(p.alt)]
FieldsOf(sat) ==
    [name |-> sat.name, norad |-> sat.norad, lat |-> sat.lat, lon |-> sat.lon, alt |-> sat.alt]
Newest(hist) == hist[Len(hist)]

\* C5: the store holds records only for norads that were delivered, and for
\* every norad whose newest delivered message is a valid position the store
\* holds exactly one record with that norad, equal to the normalized fields of
\* that message.
C5_LastPositionWins ==
    /\ DOMAIN satellites \subseteq DOMAIN delivered
    /\ \A k \in DOMAIN delivered :
         ValidPosition(Newest(delivered[k])) =>
            /\ k \in DOMAIN satellites
            /\ Cardinality({j \in DOMAIN satellites : satellites[j].norad = k}) = 1
            /\ FieldsOf(satellites[k]) = ExpectedFields(Newest(delivered[k]))

\* two valid positions of one norad with different lat, the store of size 1
C5_Witness ==
    /\ isMounted
    /\ Cardinality(DOMAIN satellites) = 1
    /\ \E k \in DOMAIN delivered :
         /\ Len(delivered[k]) = 2
         /\ ValidPosition(delivered[k][1]) /\ ValidPosition(delivered[k][2])
         /\ delivered[k][1].lat # delivered[k][2].lat
         /\ satellites[k].lat = delivered[k][2].lat

\* C6: a message whose text is not JSON, handled while mounted, adds one to
\* the counter and leaves the store, the connected flag and the status text.
C6_DecodeFailure ==
    [][(isMounted /\ event'.type = "message" /\ event'.data.json = "bad") =>
          /\ messageCount' = messageCount + 1
          /\ UNCHANGED <<satellites, connected, connectionStatus>>]_vars

C6_Witness ==
    /\ isMounted /\ event.type = "message" /\ event.data = Malformed
    /\ messageCount = 2 /\ connected /\ DOMAIN satellites # {}

\* the three ways a decoded message is handled
AsPosition(data) ==
    LET k == Get(data.norad)
    IN /\ DOMAIN satellites' = (DOMAIN satellites) \cup {k}
       /\ satellites'[k].norad = k
       /\ satellites'[k].name = Get(data.name)
       /\ satellites'[k].lat = Get(data.lat)
       /\ satellites'[k].lon = Get(data.lon)
       /\ satellites'[k].timestamp = now
       /\ \A j \in (DOMAIN satellites) \ {k} : satellites'[j] = satellites[j]
       /\ UNCHANGED connectionStatus
AsStatus(data) == connectionStatus' = Get(data.message) /\ UNCHANGED satellites
AsDropped == UNCHANGED <<satellites, connectionStatus>>
Decoded(e) == e.type = "message" /\ e.data.json \in {"object", "scalar"}

\* C7 as stated: norad decides first, whatever else the message carries.
C7_NoradFirst ==
    [][(isMounted /\ Decoded(event')) =>
          /\ Has(event'.data.norad) => AsPosition(event'.data)
          /\ (~Has(event'.data.norad) /\ IsConnectionMessage(event'.data)) => AsStatus(event'.data)
          /\ (~Has(event'.data.norad) /\ ~IsConnectionMessage(event'.data)) => AsDropped]_vars

\* C7 amended: a decoded message with type "connection" is a status update,
\* also when it carries norad; any other decoded message with a field norad is
\* a position update; a message with neither is dropped.
C7_ConnectionFirst ==
    [][(isMounted /\ Decoded(event')) =>
          /\ IsConnectionMessage(event'.data) => AsStatus(event'.data)
          /\ (~IsConnectionMessage(event'.data) /\ Has(event'.data.norad)) => AsPosition(event'.data)
          /\ (~IsConnectionMessage(event'.data) /\ ~Has(event'.data.norad)) => AsDropped]_vars

C7_Witness ==
    /\ isMounted /\ event.type = "message" /\ event.data = TypedPosition
    /\ connectionStatus = Text("Welcome") /\ DOMAIN satellites = {}

\* a step in which connect() ran and the constructor threw
ConstructFailed == event'.type \in {"mount", "timeout"} /\ isMounted' /\ sockets' = sockets

\* C8: while mounted, a constructor failure, an error event and a close event
\* each leave connected false and a failure text as status; the constructor
\* failure and the close (which follows every error) leave exactly one
\* pending reconnect timer, set for the fixed delay.
C8_OneRecoveryPath ==
    [][isMounted' =>
          /\ (ConstructFailed \/ event'.type \in {"error", "close"}) =>
                (connected' = FALSE /\ connectionStatus' \in FailureTexts)
          /\ (ConstructFailed \/ event'.type = "close") =>
                /\ Cardinality(PendingTimers') = 1
                /\ \A t \in PendingTimers' : timers'[t].delay = RECONNECT_DELAY]_vars

\* C9: no state reached by handling messages makes the view throw, and a
\* message that fails to decode or has an unrecognized shape leaves the
\* connected flag and the status text.
C9_NoFault ==
    /\ [](isMounted => ~RenderThrows)
    /\ [][(isMounted /\ event'.type = "message"
              /\ Classify(event'.data) \in {"throw", "unknown"}) =>
             UNCHANGED <<connected, connectionStatus>>]_vars

\* C10: once the cleanup has run no reconnect timer is pending, no socket is
\* connecting or open without having been asked to close, and no step
\* constructs a socket or sets a timer (connect() does not run again).
C10_TeardownReleases ==
    /\ [](Torn => /\ PendingTimers = {}
                  /\ \A s \in 1..Len(sockets) :
                        sockets[s].readyState # "CLOSED" => sockets[s].closeRequested)
    /\ [][Torn => (Len(sockets') = Len(sockets) /\ Len(timers') = Len(timers))]_vars

\* the cleanup cancelled a timer whose callback was already queued
C10_Witness ==
    /\ Torn
    /\ \E t \in 1..Len(timers) : timers[t].st = "cleared" /\ timers[t].expired

\* C11: after a position message is handled, the stored altitude is the
\* number itself for a numeric altitude, 550.5 for "550.5km", 400 for
\* " 400 km ", and for every text the number a reference gets that trims the
\* text and removes only a trailing "km".
C11_AltNormalization ==
    (isMounted /\ event.type = "message" /\ Classify(event.data) = "position") =>
        LET in  == event.data.alt
            out == satellites[Get(event.data.norad)].alt
        IN /\ in.t = "num" => out = in
           /\ in = Chars(<<"5", "5", "0", ".", "5", "k", "m">>) => out = Num(5505, 1)
           /\ in = Chars(<<" ", "4", "0", "0", " ", "k", "m", " ">>) => out = Num(400, 0)
           /\ in.t = "str" => out = ExpectedAlt(in)

\* C12: every decoded message handled while mounted adds exactly one to the
\* counter and sets the last-message time to the time of handling; no step
\* lowers the counter (a close, a reconnect and an open leave it).
C12_CounterCounts ==
    /\ [][(isMounted /\ Decoded(event')) =>
             (messageCount' = messageCount + 1 /\ lastMessageTime' = now)]_vars
    /\ [][messageCount' >= messageCount]_vars

\* a message on the second socket, after one was counted on the first
C12_Witness ==
    /\ isMounted /\ Decoded(event) /\ event.target = 2
    /\ sockets[1].closeFired /\ sockets[1].wasOpen
    /\ messageCount = 2 /\ lastMessageTime = 1

\* C13: a connection-status message handled while mounted sets the status
\* text to the text of the message and leaves the connected flag, the store,
\* the reconnect timer and the connection.
C13_StatusOnly ==
    [][(isMounted /\ event'.type = "message" /\ Classify(event'.data) = "connection") =>
          /\ connectionStatus' = Get(event'.data.message)
          /\ UNCHANGED <<satellites, connected, ws, reconnectTimeout, timers, sockets>>]_vars

C13_Witness ==
    /\ isMounted /\ event.type = "message" /\ event.data = Welcome
    /\ connectionStatus = Text("Welcome") /\ connected
    /\ DOMAIN satellites # {}

\* C14: in every state at most one reconnect timer is pending, and it is the
\* one reconnectTimeout holds.
C14_OnePendingTimer ==
    /\ Cardinality(PendingTimers) <= 1
    /\ PendingTimers \subseteq {reconnectTimeout}

\* a second timer is pending after the first one has fired
C14_Witness ==
    /\ isMounted /\ event.type = "close"
    /\ Len(timers) = 2 /\ timers[1].st = "fired" /\ Pending(timers[2])

\* C15: after an open event handled while mounted, connected is true, the
\* status is 'Connected', no timer is pending and reconnectTimeout is null;
\* the close of a socket that had opened, handled while mounted, leaves
\* exactly one reconnect timer pending.
C15_OpenClearsTimer ==
    /\ []((isMounted /\ event.type = "open") =>
            /\ connected = TRUE
            /\ connectionStatus = Text("Connected")
            /\ PendingTimers = {}
            /\ reconnectTimeout = 0)
    /\ [][(isMounted /\ event'.type = "close" /\ sockets[event'.target].wasOpen) =>
             (Cardinality(PendingTimers') = 1 /\ reconnectTimeout' \in PendingTimers')]_vars

\* the second socket opened while the handle of the fired timer was still
\* stored, and its close set the second timer
C15_Witness ==
    /\ isMounted /\ event.type = "close" /\ event.target = 2
    /\ sockets[2].wasOpen /\ timers[1].st = "fired"
    /\ Len(timers) = 2 /\ Pending(timers[2]) /\ reconnectTimeout = 2

\* C16: an error event handled while mounted sets connected to false and the
\* status to the error text, and leaves the store, ws, reconnectTimeout and
\* the timers; it constructs no socket.
C16_ErrorOnlyMarks ==
    [][(isMounted /\ event'.type = "error") =>
          /\ connected' = FALSE
          /\ connectionStatus' = Text("Connection error - retrying...")
          /\ UNCHANGED <<satellites, ws, reconnectTimeout, timers>>
          /\ Len(sockets') = Len(sockets)]_vars

\* the error of a socket that was open, no reconnect scheduled yet
C16_Witness ==
    /\ isMounted /\ event.type = "error"
    /\ sockets[event.target].wasOpen /\ ~sockets[event.target].closeFired
    /\ ~connected /\ PendingTimers = {} /\ reconnectTimeout = 0

\* a step in which a position update is handled
PositionStep ==
    isMounted /\ event'.type = "message" /\ Classify(event'.data) = "position"

\* C17: a position update leaves the record of every other norad, every other
\* step leaves the whole store, and no step removes a record.
C17_StoreFrame ==
    [][/\ PositionStep =>
            \A k \in (DOMAIN satellites) \ {Get(event'.data.norad)} :
                k \in DOMAIN satellites' /\ satellites'[k] = satellites[k]
       /\ ~PositionStep => UNCHANGED satellites
       /\ DOMAIN satellites \subseteq DOMAIN satellites']_vars

\* both records are still there after a disconnect and a reconnect
C17_Witness ==
    /\ isMounted /\ Cardinality(DOMAIN satellites) = 2
    /\ event.type = "open" /\ event.target = 2
    /\ sockets[1].closeFired /\ sockets[2].readyState = "OPEN"

\* C18 as stated: while mounted the placeholder is shown whenever the store
\* is empty, and the hint whenever the store is empty and a message has been
\* received, connected or not.
C18_HintWheneverReceived ==
    isMounted =>
        /\ DOMAIN satellites = {} => ShowsPlaceholder
        /\ (DOMAIN satellites = {} /\ messageCount > 0) => ShowsHint

\* C18 amended: while mounted the placeholder is shown whenever the store is
\* empty; the hint is shown after every message that leaves the store empty,
\* it is shown only while connected is true, and it is hidden once an error
\* or a close event has been handled.
C18_HintWhileConnected ==
    isMounted =>
        /\ DOMAIN satellites = {} => ShowsPlaceholder
        /\ (event.type = "message" /\ DOMAIN satellites = {}) => ShowsHint
        /\ ShowsHint => (connected /\ messageCount > 0 /\ DOMAIN satellites = {})
        /\ event.type \in {"error", "close"} => ~ShowsHint

\* the connection was lost after a message that gave no position
C18_Witness ==
    /\ isMounted /\ event.type = "close" /\ ~connected
    /\ DOMAIN satellites = {} /\ messageCount > 0
    /\ ShowsPlaceholder /\ ~ShowsHint

\* C19: while mounted, connected is true only if the socket constructed last
\* is open.
C19_ConnectedMeansOpen ==
    (isMounted /\ connected) =>
        (ws = Len(sockets) /\ ws # 0 /\ sockets[ws].readyState = "OPEN")

\* connected again on the second socket; the first had an error and closed
C19_Witness ==
    /\ isMounted /\ connected /\ ws = 2 /\ sockets[2].readyState = "OPEN"
    /\ sockets[1].wasOpen /\ sockets[1].errorFired /\ sockets[1].closeFired

\* a step that handles a position whose altitude text parses to NaN
NaNStep ==
    /\ isMounted /\ event'.type = "message" /\ Classify(event'.data) = "position"
    /\ event'.data.alt.t = "str"
    /\ ParseFloat(Trim(ReplaceFirst(event'.data.alt.s, <<"k", "m">>))) = NaN

\* C20: a position whose altitude text does not parse is stored like any
\* other: the record of its norad is there afterwards with the fields of the
\* message and NaN as altitude, whatever altitude was stored before, and the
\* counter has gone up by one.
C20_NaNStored ==
    [][NaNStep =>
          LET k == Get(event'.data.norad)
          IN /\ k \in DOMAIN satellites'
             /\ satellites'[k].alt = NaN
             /\ satellites'[k].lat = Get(event'.data.lat)
             /\ satellites'[k].name = Get(event'.data.name)
             /\ messageCount' = messageCount + 1]_vars

\* NaN has replaced the altitude of a valid position of the same norad
C20_Witness ==
    /\ isMounted /\ event.type = "message" /\ event.data.alt = Chars(<<"k", "m">>)
    /\ \E k \in DOMAIN delivered :
         /\ Len(delivered[k]) = 2
         /\ ValidPosition(delivered[k][1]) /\ delivered[k][2] = event.data
         /\ satellites[k].alt = NaN
    /\ messageCount = 2

====
